---- MODULE Spec2Model ----
(***************************************************************************)
(* Model of the dental-clinic chatbot pipeline: the singleton              *)
(* FullPipelineChatbot (data pull, column combination, model loading) and  *)
(* the per-query retrieval of RetrieveRelevantDocuments (encode, FAISS     *)
(* inner-product index, top-k search, sort by similarity).                 *)
(*                                                                         *)
(* Numbers: an embedding is a 2-vector of integers whose Euclidean norm is *)
(* an integer, so that L2 normalisation is exact in fixed point: a unit    *)
(* vector has length Scale and a cosine similarity c is the integer        *)
(* c * Scale * Scale.                                                      *)
(***************************************************************************)
EXTENDS Integers, Sequences, FiniteSets, TLC

\* ------------------------------------------------------------ bounds
\* Largest configured top_k, and the number of queries a behaviour runs.
MaxTopK == 3
MaxQueries == 2

\* ------------------------------------------------------------ data
Categories == {"services", "branches", "social_media"}

\* The column relevant() reads from each category's DataFrame.
NameColumn(cat) ==
    CASE cat = "services"     -> "service_name"
      [] cat = "branches"     -> "branch_name"
      [] cat = "social_media" -> "platform_name"

\* Rows of the SQLite tables, and the databases the pull can find: six
\* tables each.
SvcAr1 == [service_name |-> "cleaning", price |-> 40]
SvcEn1 == [service_name |-> "cleaning", price |-> 50]
SvcEn2 == [service_name |-> "whitening", price |-> 80]
BrAr1 == [branch_name |-> "far3", city |-> "amman"]
BrEn1 == [branch_name |-> "main", city |-> "amman"]
SmEn1 == [platform_name |-> "facebook", handle |-> "clinic"]
SmEn2 == [platform_name |-> "twitter", handle |-> "clinic"]

Databases ==
    { [Services_Arabic |-> <<SvcAr1>>, Services_English |-> <<SvcEn1, SvcEn2>>,
       Branches_Arabic |-> <<BrAr1>>, Branches_English |-> <<BrEn1>>,
       SocialMedia_Arabic |-> <<>>, SocialMedia_English |-> <<SmEn1, SmEn2>>],
      [Services_Arabic |-> <<SvcAr1>>, Services_English |-> <<SvcEn1, SvcEn2>>,
       Branches_Arabic |-> <<BrAr1>>, Branches_English |-> <<BrEn1>>,
       SocialMedia_Arabic |-> <<>>, SocialMedia_English |-> <<>>],
      [Services_Arabic |-> <<>>, Services_English |-> <<SvcEn1>>,
       Branches_Arabic |-> <<>>, Branches_English |-> <<BrEn1>>,
       SocialMedia_Arabic |-> <<>>, SocialMedia_English |-> <<SmEn1>>] }

\* The configurations pipeline_config.yaml can hold: the columns to combine
\* per category.
ColumnConfigs ==
    { [service_columns |-> <<"service_name">>,
       branch_columns  |-> <<"branch_name">>,
       social_columns  |-> <<"platform_name">>],
      [service_columns |-> <<"service_name", "price">>,
       branch_columns  |-> <<"branch_name", "city">>,
       social_columns  |-> <<"platform_name", "handle">>],
      [service_columns |-> <<"service_name">>,
       branch_columns  |-> <<"branch_name", "phone">>,
       social_columns  |-> <<"platform_name">>] }

\* The queries a user sends.
Queries == {"cleaning", "cleaning 50", "main amman"}

\* ------------------------------------------------------------ embeddings
\* Fixed-point length of a unit vector.
Scale == 10

\* The loaded SentenceTransformer, a deterministic map from text to vector.
Embed(text) ==
    CASE text = "cleaning"     -> <<3, 4>>
      [] text = "whitening"    -> <<4, 3>>
      [] text = "cleaning 50"  -> <<5, 0>>
      [] text = "cleaning 40"  -> <<0, 5>>
      [] text = "whitening 80" -> <<4, -3>>
      [] text = "main"         -> <<0, 5>>
      [] text = "far3"         -> <<0, -5>>
      [] text = "main amman"   -> <<-3, 4>>
      [] text = "far3 amman"   -> <<3, -4>>
      [] text = "facebook"     -> <<-4, -3>>
      [] text = "twitter"      -> <<-3, -4>>
      [] OTHER                 -> <<5, 0>>

\* sqrt(x^2 + y^2), an integer for every vector Embed yields.
Norm(v) == CHOOSE n \in 0..(2 * Scale) : n * n = v[1] * v[1] + v[2] * v[2]

\* faiss.normalize_L2: scale a vector to unit length; a zero vector stays.
NormalizeL2(v) ==
    IF Norm(v) = 0 THEN v
    ELSE <<(v[1] * Scale) \div Norm(v), (v[2] * Scale) \div Norm(v)>>

\* The inner product IndexFlatIP ranks by.
InnerProduct(a, b) == a[1] * b[1] + a[2] * b[2]


\* ------------------------------------------------------------ data operations
Min(a, b) == IF a <= b THEN a ELSE b

\* PullDataFromDatabaseQuery.pull: pd.concat of the Arabic and the English
\* table of each category, Arabic rows first.
Pull(db) ==
    [services     |-> db.Services_Arabic \o db.Services_English,
     branches     |-> db.Branches_Arabic \o db.Branches_English,
     social_media |-> db.SocialMedia_Arabic \o db.SocialMedia_English]

\* The columns SQLite holds as integers; the others hold text.
IntColumns == {"price"}

\* str() of a decimal digit and of a natural number.
Digit(d) ==
    CASE d = 0 -> "0" [] d = 1 -> "1" [] d = 2 -> "2" [] d = 3 -> "3" [] d = 4 -> "4"
      [] d = 5 -> "5" [] d = 6 -> "6" [] d = 7 -> "7" [] d = 8 -> "8" [] d = 9 -> "9"

RECURSIVE IntToStr(_)
IntToStr(n) == IF n < 10 THEN Digit(n) ELSE IntToStr(n \div 10) \o Digit(n % 10)

\* df[columns].astype(str), one cell: an integer column's value becomes its
\* decimal text, a text column's value stays.
AsTypeStr(column, value) == IF column \in IntColumns THEN IntToStr(value) ELSE value

\* A join that takes the named columns last to first.
RECURSIVE JoinColumnsReversed(_, _)
JoinColumnsReversed(row, columns) ==
    IF Len(columns) = 1 THEN AsTypeStr(columns[1], row[columns[1]])
    ELSE JoinColumnsReversed(row, Tail(columns)) \o " " \o AsTypeStr(columns[1], row[columns[1]])

\* ' '.join over the named columns of one row, in the order given.
RECURSIVE JoinColumns(_, _)
JoinColumns(row, columns) ==
    IF Len(columns) = 1 THEN AsTypeStr(columns[1], row[columns[1]])
    ELSE AsTypeStr(columns[1], row[columns[1]]) \o " " \o JoinColumns(row, Tail(columns))

\* "col not in df.columns" for no col of columns; schema is df.columns (an
\* empty table keeps its columns).
HasColumns(schema, columns) ==
    \A i \in 1..Len(columns) : columns[i] \in schema

\* A validation that reports the last of the missing columns.
LastMissing(schema, columns) ==
    LET missing == {i \in 1..Len(columns) : columns[i] \notin schema}
    IN  IF missing = {} THEN 0 ELSE CHOOSE i \in missing : \A j \in missing : j <= i

\* The loop "for col in columns: if col not in df.columns: raise": the
\* position of the column it raises for, 0 if it raises for none.
FirstMissing(schema, columns) ==
    LET missing == {i \in 1..Len(columns) : columns[i] \notin schema}
    IN  IF missing = {} THEN 0 ELSE CHOOSE i \in missing : \A j \in missing : i <= j

\* The messages of the ValueErrors combined raises.
EmptyColumnsMessage == "The 'columns' list is empty. Provide at least one column name."
MissingColumnMessage(col) == "Column '" \o col \o "' does not exist in the DataFrame."

\* The file combined writes: Data/data<last column>.csv.
CsvName(columns) == "data" \o columns[Len(columns)] \o ".csv"

\* No file written.
NoCsv == [written |-> FALSE, name |-> "", rows |-> <<>>]

\* CombinedTables.combined: validate, then make a copy of df whose rows gain
\* the column 'combined', write it to the CSV file named after the last
\* column, and return it.  ok = FALSE stands for the ValueError, raised
\* before the copy is made.
Combined(columns, df, schema) ==
    IF Len(columns) = 0
    THEN [ok |-> FALSE, df |-> <<>>, error |-> EmptyColumnsMessage, csv |-> NoCsv]
    ELSE IF ~HasColumns(schema, columns)
    THEN [ok |-> FALSE, df |-> <<>>,
          error |-> MissingColumnMessage(columns[FirstMissing(schema, columns)]),
          csv |-> NoCsv]
    ELSE LET df_copy == [i \in 1..Len(df) |->
                           [c \in (DOMAIN df[i]) \cup {"combined"} |->
                               IF c = "combined" THEN JoinColumns(df[i], columns)
                               ELSE df[i][c]]]
         IN  [ok |-> TRUE, df |-> df_copy, error |-> "",
              csv |-> [written |-> TRUE, name |-> CsvName(columns), rows |-> df_copy]]

\* A combined that adds the new column to the DataFrame it was given.
InputAfterCombinedInPlace(columns, df, schema) ==
    IF Combined(columns, df, schema).ok THEN Combined(columns, df, schema).df ELSE df

\* The DataFrame combined was given, after the call: the column is added to
\* df.copy(), and a ValueError is raised before anything is touched.
InputAfterCombined(columns, df, schema) == df

\* The schema of each category's tables.
Schema(cat) ==
    CASE cat = "services"     -> {"service_name", "price"}
      [] cat = "branches"     -> {"branch_name", "city"}
      [] cat = "social_media" -> {"platform_name", "handle"}

\* Every column of every table.
AllColumns == UNION {Schema(cat) : cat \in Categories}

\* The CSV files combined can write into the Data directory.
FileNames == {CsvName(<<col>>) : col \in AllColumns}

\* The Data directory with no CSV file in it.
NoFiles == [name \in FileNames |-> [exists |-> FALSE, rows |-> <<>>]]

\* df_copy.to_csv(csv_path, index=False): the file is created or overwritten.
WriteCsv(fs, csv) ==
    IF csv.written THEN [fs EXCEPT ![csv.name] = [exists |-> TRUE, rows |-> csv.rows]]
    ELSE fs

\* The column of a category's tables that is not its name column.
OtherColumn(cat) == CHOOSE col \in Schema(cat) : col # NameColumn(cat)

\* The column lists combined is called with: the configured ones, and lists
\* that are empty, repeat a column or name columns the table has not.
ColumnLists(cat) ==
    {<<>>,
     <<NameColumn(cat)>>,
     <<NameColumn(cat), OtherColumn(cat)>>,
     <<OtherColumn(cat), NameColumn(cat)>>,
     <<"age">>,
     <<NameColumn(cat), "age">>,
     <<"phone", NameColumn(cat), "age">>,
     <<NameColumn(cat), "age", "phone">>}

\* No combined call made.
NoCall == [made |-> FALSE, columns |-> <<>>, cat |-> "", ok |-> FALSE, df |-> <<>>,
           error |-> "", input |-> <<>>]

\* ------------------------------------------------------------ retrieval
\* The texts relevant() hands to encode for one category:
\* df[<name column>].tolist().
DocumentTexts(df, cat) == [i \in 1..Len(df) |-> df[i][NameColumn(cat)]]

\* embedding_model.encode(texts): one vector per text, in order.
Encode(texts) == [i \in 1..Len(texts) |-> Embed(texts[i])]

\* An index construction that adds the vectors to an index already holding
\* them, instead of to a new one.
BuildFaissIndexAccumulating(embeddings) ==
    IF Len(embeddings) = 0
    THEN [ok |-> FALSE, vectors |-> <<>>]
    ELSE [ok |-> TRUE,
          vectors |-> [i \in 1..(2 * Len(embeddings)) |->
                         NormalizeL2(embeddings[((i - 1) % Len(embeddings)) + 1])]]

\* _build_faiss_index: embeddings.shape[1] needs a second axis, which the
\* encoding of an empty list has not (IndexError); otherwise the index holds
\* the normalised vectors in order.
BuildFaissIndex(embeddings) ==
    IF Len(embeddings) = 0
    THEN [ok |-> FALSE, vectors |-> <<>>]
    ELSE [ok |-> TRUE,
          vectors |-> [i \in 1..Len(embeddings) |-> NormalizeL2(embeddings[i])]]

\* Label and distance IndexFlatIP.search reports where fewer than k vectors
\* exist: label -1 and the lowest float.
NoNeighbourLabel == -1
NoNeighbourDistance == -(1000 * Scale * Scale)

\* The rankings a top-k search may report for the normalised query q: the
\* min(k, ntotal) nearest labels (0-based) by descending inner product, in
\* any order of equal scores.
SearchHits(q, vectors, k) ==
    LET n == Len(vectors)
        m == Min(k, n)
        score(l) == InnerProduct(q, vectors[l + 1])
    IN  { h \in [1..m -> 0..(n - 1)] :
            /\ \A i, j \in 1..m : i < j => (h[i] # h[j] /\ score(h[i]) >= score(h[j]))
            /\ \A l \in 0..(n - 1) :
                 (\A i \in 1..m : h[i] # l) => \A i \in 1..m : score(h[i]) >= score(l) }

\* The entry on top of the search's result heap: the kept label of lowest
\* score; among equal scores the heap's comparison decides, by label in
\* faiss >= 1.7.3 (the lower label on top: "higher_label_first" in the
\* output) and by the heap's shape before; rule fixes it for one build of
\* the library.
HeapTop(kept, score, rule) ==
    CHOOSE t \in kept :
        \A u \in kept \ {t} :
            \/ score[t] < score[u]
            \/ score[t] = score[u] /\ (IF rule = "higher_label_first" THEN t < u ELSE t > u)

\* The sequential scan of IndexFlatIP.search over labels l..n-1: a label
\* enters while the heap has free entries, and later replaces the top only
\* if its score is strictly higher.
RECURSIVE HeapScan(_, _, _, _, _, _)
HeapScan(kept, l, n, k, score, rule) ==
    IF l >= n THEN kept
    ELSE LET top  == HeapTop(kept, score, rule)
             next == IF Cardinality(kept) < k THEN kept \cup {l}
                     ELSE IF score[top] < score[l] THEN (kept \ {top}) \cup {l}
                     ELSE kept
         IN  HeapScan(next, l + 1, n, k, score, rule)

\* heap_reorder: pop the top again and again, each popped entry going to the
\* end of what is left, so the best score comes first.
RECURSIVE HeapReorder(_, _, _)
HeapReorder(kept, score, rule) ==
    IF kept = {} THEN <<>>
    ELSE LET top == HeapTop(kept, score, rule)
         IN  HeapReorder(kept \ {top}, score, rule) \o <<top>>

\* The ranking index.search reports for the normalised query q: the labels
\* the scan kept, best first.
FaissRanking(q, vectors, k, rule) ==
    LET n     == Len(vectors)
        score == [l \in 0..(n - 1) |-> InnerProduct(q, vectors[l + 1])]
    IN  HeapReorder(HeapScan({}, 0, n, k, score, rule), score, rule)

\* index.search(q, k) for one ranking h: k labels and k distances, the
\* tail beyond the hits filled with the no-neighbour label and distance.
Search(q, vectors, k, h) ==
    [indices   |-> [i \in 1..k |-> IF i <= Len(h) THEN h[i] ELSE NoNeighbourLabel],
     distances |-> [i \in 1..k |->
                      IF i <= Len(h) THEN InnerProduct(q, vectors[h[i] + 1])
                      ELSE NoNeighbourDistance]]

\* A row lookup that counts every label from the end of the collection.
IlocFromEnd(df, label) == IF label >= 0 THEN df[Len(df) - label] ELSE df[Len(df) + label + 1]

\* data.iloc[label]: positional, a negative label counts from the end.
Iloc(df, label) == IF label >= 0 THEN df[label + 1] ELSE df[Len(df) + label + 1]

\* The 0-based position iloc resolves a label to.
IlocPosition(df, label) == IF label >= 0 THEN label ELSE Len(df) + label

\* Insert one row into rows sorted by descending similarity, after its equals.
RECURSIVE InsertDescending(_, _)
InsertDescending(row, rows) ==
    IF rows = <<>> THEN <<row>>
    ELSE IF row.similarity > rows[1].similarity THEN <<row>> \o rows
    ELSE <<rows[1]>> \o InsertDescending(row, Tail(rows))

\* Insert one row into rows sorted by ascending similarity.
RECURSIVE InsertAscending(_, _)
InsertAscending(row, rows) ==
    IF rows = <<>> THEN <<row>>
    ELSE IF row.similarity < rows[1].similarity THEN <<row>> \o rows
    ELSE <<rows[1]>> \o InsertAscending(row, Tail(rows))

RECURSIVE SortAscending(_)
SortAscending(rows) ==
    IF rows = <<>> THEN <<>>
    ELSE InsertAscending(rows[Len(rows)], SortAscending(SubSeq(rows, 1, Len(rows) - 1)))

\* top_k_results.sort_values(by='similarity', ascending=False).
RECURSIVE SortValues(_)
SortValues(rows) ==
    IF rows = <<>> THEN <<>>
    ELSE InsertDescending(rows[Len(rows)], SortValues(SubSeq(rows, 1, Len(rows) - 1)))

\* _retrieve_top_k: normalise the query, search, take the rows at the
\* reported labels, attach the distances as 'similarity', sort descending.
\* Each result row keeps the position of its record in the collection.
RetrieveTopK(query_embedding, vectors, data, k, h) ==
    LET found == Search(NormalizeL2(query_embedding), vectors, k, h)
    IN  SortValues([i \in 1..k |->
                      [record     |-> Iloc(data, found.indices[i]),
                       position   |-> IlocPosition(data, found.indices[i]),
                       similarity |-> found.distances[i]]])

\* No rows for any category.
NoData == [services |-> <<>>, branches |-> <<>>, social_media |-> <<>>]

\* The encode calls of relevant(), in the order it makes them.
EncodeSteps == <<"query", "services", "branches", "social_media">>

\* The categories in the order relevant() encodes, builds and searches them.
CategoryOrder == <<"services", "branches", "social_media">>

\* Position of a step in EncodeSteps.
StepIndex(step) == CHOOSE i \in 1..Len(EncodeSteps) : EncodeSteps[i] = step

\* A result dictionary whose branches and social-media values are exchanged.
ResultSetSwapped(top) ==
    [services     |-> top["services"],
     branches     |-> top["social_media"],
     social_media |-> top["branches"]]

\* The key -> DataFrame dictionary relevant() returns.
ResultSet(top) ==
    [services     |-> top["services"],
     branches     |-> top["branches"],
     social_media |-> top["social_media"]]

\* relevant() from its first _build_faiss_index call on, the query and the
\* three document lists being encoded: build the three indices in order (an
\* empty collection raises in its build), then search each and collect
\* (data.iloc raises for a label beyond the collection's rows).
BuildAndSearch(query, dfs, k, hits) ==
    LET texts        == [c \in Categories |-> DocumentTexts(dfs[c], c)]
        embeddings   == [c \in Categories |-> Encode(texts[c])]
        index        == [c \in Categories |-> BuildFaissIndex(embeddings[c])]
        badBuilds    == {i \in 1..Len(CategoryOrder) : ~index[CategoryOrder[i]].ok}
        firstBadBuild == CHOOSE i \in badBuilds : \A j \in badBuilds : i <= j
        outOfBounds  == \E c \in Categories : \E i \in 1..Len(hits[c]) :
                           hits[c][i] >= Len(dfs[c])
        top          == [c \in Categories |->
                           RetrieveTopK(Embed(query), index[c].vectors, dfs[c], k, hits[c])]
    IN  IF badBuilds # {}
        THEN [raised |-> TRUE, results |-> <<>>, texts |-> texts, index |-> <<>>,
              encodes |-> Len(CategoryOrder), builds |-> firstBadBuild - 1]
        ELSE IF outOfBounds
        THEN [raised |-> TRUE, results |-> <<>>, texts |-> texts, index |-> <<>>,
              encodes |-> Len(CategoryOrder), builds |-> Len(CategoryOrder)]
        ELSE [raised |-> FALSE, results |-> ResultSet(top), texts |-> texts,
              index |-> [c \in Categories |-> index[c].vectors],
              encodes |-> Len(CategoryOrder), builds |-> Len(CategoryOrder)]

\* A relevant() that catches a failing encode call and answers with empty
\* results for every category.
RelevantAbsorbing(query, backend, dfs, k, failAt, hits) ==
    IF backend # "local" \/ failAt # "none"
    THEN [raised |-> FALSE, results |-> NoData, texts |-> <<>>, index |-> <<>>,
          encodes |-> 0, builds |-> 0]
    ELSE BuildAndSearch(query, dfs, k, hits)

\* A relevant() that searches indices kept from start-up: it encodes no
\* document and builds no index.
RelevantCachedIndex(query, backend, dfs, k, failAt, hits) ==
    IF backend # "local" \/ failAt # "none"
    THEN [raised |-> TRUE, results |-> <<>>, texts |-> <<>>, index |-> <<>>,
          encodes |-> 0, builds |-> 0]
    ELSE [BuildAndSearch(query, dfs, k, hits) EXCEPT !.encodes = 0, !.builds = 0]

\* RetrieveRelevantDocuments(top_k = k).relevant(query, embedding_model,
\* services_df, branches_df, social_media_df).
\*   backend : the embedding model passed in ("local" has encode, the
\*             OpenAIEmbeddings object "openai" has not: AttributeError);
\*   failAt  : the encode call at which the model or service fails, or "none";
\*   hits    : per category, the ranking the index search reports.
\* Every exception is logged and raised again (raised = TRUE, no results).
\* encodes and builds count the document encodings and index constructions
\* done before returning or raising; texts are the document lists handed to
\* encode once all three were encoded.
Relevant(query, backend, dfs, k, failAt, hits) ==
    LET encodeRaises == backend # "local" \/ failAt # "none"
        firstBad     == IF backend # "local" THEN 1 ELSE StepIndex(failAt)
    IN  IF encodeRaises
        THEN [raised |-> TRUE, results |-> <<>>, texts |-> <<>>, index |-> <<>>,
              encodes |-> IF firstBad = 1 THEN 0 ELSE firstBad - 2, builds |-> 0]
        ELSE BuildAndSearch(query, dfs, k, hits)

\* The rankings the three searches of one relevant() call report.
Rankings(query, dfs, k, rule) ==
    [c \in Categories |->
        FaissRanking(NormalizeL2(Embed(query)),
                     BuildFaissIndex(Encode(DocumentTexts(dfs[c], c))).vectors, k, rule)]

\* ------------------------------------------------------------ generation
PipelineErrorMessage == "An error occurred while processing your request."
GenErrorMessage == "Sorry, an error occurred while processing your request"
MissingDataMessage == "Missing required data"

\* dict.get(key, default) on a mapping.
Get(d, key, default) == IF key \in DOMAIN d THEN d[key] ELSE default

\* DataFrame.get(column, []): the column's values, or the default when the
\* frame has no such column (an empty frame has none).
ColumnOrEmpty(rows, column) ==
    IF rows # <<>> /\ column \in DOMAIN rows[1]
    THEN [i \in 1..Len(rows) |-> rows[i][column]]
    ELSE <<>>

\* ", ".join(names)
RECURSIVE CommaJoin(_)
CommaJoin(names) ==
    IF names = <<>> THEN ""
    ELSE IF Len(names) = 1 THEN names[1]
    ELSE names[1] \o ", " \o CommaJoin(Tail(names))

\* The three name lists gen() puts into the prompt, with the query.
PromptFields(query, relevant_docs) ==
    [c \in Categories |-> CommaJoin(ColumnOrEmpty(Get(relevant_docs, c, <<>>), NameColumn(c)))]

\* A text is a sequence of tokens; " " is whitespace and "Response:" the
\* marker the prompt ends with (a local text-generation pipeline returns the
\* prompt followed by its continuation).
ResponseMarker == "Response:"

RECURSIVE StripLeft(_)
StripLeft(text) ==
    IF text # <<>> /\ Head(text) = " " THEN StripLeft(Tail(text)) ELSE text

RECURSIVE StripRight(_)
StripRight(text) ==
    IF text # <<>> /\ text[Len(text)] = " "
    THEN StripRight(SubSeq(text, 1, Len(text) - 1))
    ELSE text

Strip(text) == StripRight(StripLeft(text))

\* text.split("Response:")[-1]: what follows the last marker, the whole text
\* when there is none.
SplitLast(text) ==
    LET marks == {i \in 1..Len(text) : text[i] = ResponseMarker}
    IN  IF marks = {} THEN text
        ELSE SubSeq(text, (CHOOSE i \in marks : \A j \in marks : i >= j) + 1, Len(text))

RECURSIVE Concat(_)
Concat(text) == IF text = <<>> THEN "" ELSE Head(text) \o Concat(Tail(text))

\* What legacy_chain.invoke can do: return a string, return a dict with or
\* without the key "text", raise KeyError, or raise another Exception.
ChainTexts ==
    { <<"answer">>,
      <<" ", "prompt", ResponseMarker, " ", "answer", " ">>,
      <<"prompt", ResponseMarker, "draft", ResponseMarker, "answer">> }

ChainOutcomes ==
    [kind : {"str", "dict"}, text : ChainTexts, message : {""}]
    \cup [kind : {"dict_without_text"}, text : {<<>>}, message : {""}]
    \cup [kind : {"KeyError"}, text : {<<>>}, message : {"'chat_history'"}]
    \cup [kind : {"Exception"}, text : {<<>>}, message : {"timeout"}]

\* The chain outcomes a pipeline run draws from.
RunChainOutcomes ==
    {o \in ChainOutcomes : o.kind = "Exception"
                            \/ (o.kind = "str" /\ o.text = <<"answer">>)}

\* gen() with its two handlers removed: the mutation of Gen used for C25.
GenPropagating(query, relevant_docs, chain) ==
    LET fields == PromptFields(query, relevant_docs)
    IN  IF chain.kind \in {"KeyError", "Exception"}
        THEN [raised |-> TRUE, text |-> chain.message]
        ELSE [raised |-> FALSE, text |-> Concat(Strip(SplitLast(Strip(chain.text))))]

\* ChatbotResponse.gen: the text after the last "Response:" of what the LLM
\* chain returns, stripped; a KeyError gives "Missing required data: ...",
\* any other Exception the apology string with the error's text.
Gen(query, relevant_docs, chain) ==
    LET fields == PromptFields(query, relevant_docs)
    IN  IF chain.kind = "KeyError"
        THEN [raised |-> FALSE, text |-> MissingDataMessage \o ": " \o chain.message]
        ELSE IF chain.kind = "Exception"
        THEN [raised |-> FALSE, text |-> GenErrorMessage \o ": " \o chain.message]
        ELSE [raised |-> FALSE, text |-> Concat(Strip(SplitLast(Strip(chain.text))))]

\* run() with its handler removed: the mutation of RunResult used for C27.
RunResultPropagating(rel, g) ==
    [raised   |-> rel.raised \/ g.raised,
     response |-> IF rel.raised \/ g.raised THEN "" ELSE g.text]

\* What run() hands its caller: gen's string, or the fixed error string when
\* retrieval or generation raised; run() itself never raises.
RunResult(rel, g) ==
    [raised   |-> FALSE,
     response |-> IF rel.raised \/ g.raised THEN PipelineErrorMessage ELSE g.text]

\* ------------------------------------------------------------ state
NoRun == [query |-> "", raised |-> FALSE, results |-> <<>>, texts |-> <<>>,
          index |-> <<>>, failAt |-> "none", response |-> "", propagated |-> FALSE]

\* Two callers of run() on the one pipeline instance, each a thread of the
\* serving process.
Threads == {"a", "b"}

\* An index variable of relevant() before its _build_faiss_index call.
NoIndex == [state |-> "none", vectors |-> <<>>]

\* A category relevant() has not yet called _retrieve_top_k for.
Unsearched == [state |-> "unsearched", vectors |-> <<>>]

\* A caller outside run().
Idle ==
    [pc |-> "idle", query |-> "", built |-> 0, searched |-> 0,
     index |-> [c \in Categories |-> NoIndex],
     seen |-> [c \in Categories |-> Unsearched],
     results |-> NoData, raised |-> FALSE, response |-> ""]

VARIABLES
    database,        \* the SQLite file's tables
    tieOrder,        \* the installed faiss build's order of equal scores
    config,          \* pipeline_config.yaml: top_k and the columns to combine
    instance,        \* FullPipelineChatbot._instance is set
    created,         \* number of FullPipelineChatbot objects __new__ has made
    ctor,            \* the latest constructor call: made, and the exception it raised
    assigned,        \* the categories whose *_df_com attribute is assigned
    has_initialized, \* the instance has the attribute _initialized
    initialized,     \* self._initialized
    openai_models,   \* self.openai_models
    df,              \* self.service_df, self.branch_df, self.social_df
    df_com,          \* self.service_df_com, self.branch_df_com, self.social_df_com
    embedding_model, \* self.embedding_model: "none", "local" or "openai"
    llm,             \* self.llm: "none", "huggingface" or "openai"
    last,            \* the latest run(): query, outcome of relevant(), response
    queries,         \* number of run() calls so far
    docEncodes,      \* number of document encode calls so far
    indexBuilds,     \* number of FAISS indices built so far
    slots,           \* per caller of run(), its position in run() and its locals
    files,           \* the CSV files of the Data directory
    call,            \* the latest direct call of combined: arguments and outcome
    request,         \* the /chat request being handled: position, locals, reply
    history,         \* the committed rows of the chat_history table
    save,            \* the latest save_chat_response call and its outcome
    replies,         \* number of {"response": ...} bodies the handler returned
    genCall,         \* the latest direct call of gen: arguments and outcome
    loadCall         \* the latest call of LoadFromDrive.load: arguments and outcome

vars == <<database, tieOrder, config, instance, created, ctor, assigned, has_initialized,
          initialized, openai_models, df, df_com,
          embedding_model, llm, last, queries, docEncodes, indexBuilds>>

apivars == <<request, history, save, replies>>

unitvars == <<genCall, loadCall>>

allvars == <<vars, slots, files, call, apivars, unitvars>>

\* The orders of equal scores a faiss build may report.
TieOrders == {"higher_label_first", "lower_label_first"}

Configs ==
    { [top_k |-> k, service_columns |-> cc.service_columns,
       branch_columns |-> cc.branch_columns, social_columns |-> cc.social_columns] :
      k \in 1..MaxTopK, cc \in ColumnConfigs }

\* No /chat request handled.
NoRequest == [made |-> FALSE, query |-> "", response |-> "", error |-> "none",
              status |-> 0, body |-> "", trace |-> <<>>]

\* No save_chat_response call made.
NoSave == [made |-> FALSE, query |-> "", response |-> "", failPoint |-> "none",
           raised |-> FALSE, opened |-> 0, closed |-> 0, rolledBack |-> FALSE,
           committed |-> 0, returned |-> <<>>, rows |-> <<>>]

\* No direct gen call made.
NoGenCall == [made |-> FALSE, keys |-> {}, kind |-> "none", message |-> "",
              raised |-> FALSE, text |-> ""]

\* No load call made.
NoLoadCall == [made |-> FALSE, url |-> [type |-> "str", text |-> <<>>], name |-> "str",
               raised |-> "", downloads |-> 0, dataDir |-> FALSE]

\* No constructor call made.
NoCtor == [called |-> FALSE, error |-> ""]

Init ==
    /\ database \in Databases
    /\ tieOrder \in TieOrders
    /\ config \in Configs
    /\ instance = FALSE
    /\ created = 0
    /\ ctor = NoCtor
    /\ assigned = {}
    /\ has_initialized = FALSE
    /\ initialized = FALSE
    /\ openai_models = FALSE
    /\ df = NoData
    /\ df_com = NoData
    /\ embedding_model = "none"
    /\ llm = "none"
    /\ last = NoRun
    /\ queries = 0
    /\ docEncodes = 0
    /\ indexBuilds = 0
    /\ slots = [t \in Threads |-> Idle]
    /\ files = NoFiles
    /\ call = NoCall
    /\ request = NoRequest
    /\ history = <<>>
    /\ save = NoSave
    /\ replies = 0
    /\ genCall = NoGenCall
    /\ loadCall = NoLoadCall

\* The three CombinedTables().combined calls of initialize_pipeline.
CombineAll(cfg, dfs) ==
    [services     |-> Combined(cfg.service_columns, dfs["services"], Schema("services")),
     branches     |-> Combined(cfg.branch_columns, dfs["branches"], Schema("branches")),
     social_media |-> Combined(cfg.social_columns, dfs["social_media"], Schema("social_media"))]

\* The CSV files after the combined calls of initialize_pipeline, made in the
\* order services, branches, social media up to the first that raises.
RECURSIVE WriteUpTo(_, _, _)
WriteUpTo(fs, com, n) ==
    IF n = 0 THEN fs
    ELSE IF \E i \in 1..(n - 1) : ~com[CategoryOrder[i]].ok THEN WriteUpTo(fs, com, n - 1)
    ELSE WriteCsv(WriteUpTo(fs, com, n - 1), com[CategoryOrder[n]].csv)

WriteAll(fs, com) == WriteUpTo(fs, com, Len(CategoryOrder))

\* The position of a category among the combined calls of initialize_pipeline.
CategoryIndex(cat) == CHOOSE i \in 1..Len(CategoryOrder) : CategoryOrder[i] = cat

\* The steps of initialize_pipeline that can raise, in the order it takes
\* them ("pull": the database is missing or unreadable; "llm", "embedding": a
\* model load fails); the combined calls between pull and llm raise by
\* themselves, for a configured column the table has not.
FailSteps == {"none", "pull", "llm", "embedding"}

\* FullPipelineChatbot.__new__: the number of objects made so far, after the
\* call; one is made only while _instance is None.
\* An __init__ guard that looks only at the attribute's presence: the
\* mutation of AlreadyInitialized used for C29.
AlreadyInitializedHasAttr(has, flag) == has

\* hasattr(self, '_initialized') and self._initialized
AlreadyInitialized(has, flag) == has /\ flag

New(inst, n) == IF inst THEN n ELSE n + 1

\* FullPipelineChatbot(openai_models, config): __new__ keeps the one
\* instance; __init__ returns at once when it is initialised, else assigns
\* the configuration loaded from pipeline_config.yaml and openai_models and
\* runs initialize_pipeline: pull, combine three times, load the LLM, load
\* the embedding model, set _initialized.  The step that raises ends the
\* call with the exception; what was assigned before it stays assigned.  No
\* step runs, and so none fails, on an initialised instance.
Construct(openai, failStep) ==
    LET pulled   == Pull(database)
        com      == CombineAll(config, pulled)
        badCom   == {i \in 1..Len(CategoryOrder) : ~com[CategoryOrder[i]].ok}
        returned == IF failStep = "pull" THEN 0
                    ELSE IF badCom = {} THEN Len(CategoryOrder)
                    ELSE (CHOOSE i \in badCom : \A j \in badCom : i <= j) - 1
        pullOk   == failStep # "pull"
        llmOk    == pullOk /\ badCom = {} /\ failStep # "llm"
        embOk    == llmOk /\ failStep # "embedding"
    IN  /\ AlreadyInitialized(has_initialized, initialized) => failStep = "none"
        /\ instance' = TRUE
        /\ created' = New(instance, created)
        /\ IF AlreadyInitialized(has_initialized, initialized)
           THEN /\ ctor' = [called |-> TRUE, error |-> ""]
                /\ UNCHANGED <<has_initialized, initialized, openai_models, df, df_com, assigned,
                               embedding_model, llm, files>>
           ELSE /\ has_initialized' = TRUE
                /\ openai_models' = openai
                /\ files' = IF pullOk THEN WriteAll(files, com) ELSE files
                /\ df' = IF pullOk THEN pulled ELSE df
                /\ df_com' = [c \in Categories |->
                                 IF CategoryIndex(c) <= returned THEN com[c].df ELSE df_com[c]]
                /\ assigned' = assigned \cup {c \in Categories : CategoryIndex(c) <= returned}
                /\ llm' = IF llmOk THEN (IF openai THEN "openai" ELSE "huggingface") ELSE llm
                /\ embedding_model' = IF embOk THEN (IF openai THEN "openai" ELSE "local")
                                      ELSE embedding_model
                /\ initialized' = embOk
                /\ ctor' = [called |-> TRUE, error |-> IF embOk THEN "" ELSE "initialization"]
        /\ UNCHANGED <<database, tieOrder, config, last, queries, docEncodes, indexBuilds,
                       slots, call, apivars, unitvars>>

\* FullPipelineChatbot(config=config), the call ChatbotAPI.__init__ makes:
\* __new__ takes any arguments and keeps the one instance; __init__ is then
\* called without its required openai_models and raises TypeError before its
\* body runs.
ConstructFromAPI ==
    /\ instance' = TRUE
    /\ created' = New(instance, created)
    /\ ctor' = [called |-> TRUE, error |-> "TypeError"]
    /\ UNCHANGED <<database, tieOrder, config, assigned, has_initialized, initialized,
                   openai_models, df, df_com,
                   embedding_model, llm, last, queries, docEncodes, indexBuilds,
                   slots, files, call, apivars, unitvars>>

\* A run() whose retriever keeps the result set of the last query that
\* returned and answers every later query from it.
RunRemembering(query, failAt, chain) ==
    /\ initialized
    /\ queries < MaxQueries
    /\ LET hits  == Rankings(query, df_com, config.top_k, tieOrder)
           fresh == Relevant(query, embedding_model, df_com, config.top_k, failAt, hits)
           kept  == queries > 0 /\ last.results # <<>>
           rel   == IF kept /\ ~fresh.raised
                    THEN [fresh EXCEPT !.results = last.results]
                    ELSE fresh
           out   == RunResult(rel, Gen(query, rel.results, chain))
       IN  /\ last' = [query    |-> query,
                       raised   |-> rel.raised,
                       results  |-> rel.results,
                       texts    |-> rel.texts,
                       index    |-> rel.index,
                       failAt   |-> failAt,
                       response |-> out.response,
                       propagated |-> out.raised]
           /\ queries' = queries + 1
           /\ docEncodes' = docEncodes + rel.encodes
           /\ indexBuilds' = indexBuilds + rel.builds
    /\ UNCHANGED <<database, tieOrder, config, instance, created, ctor, assigned,
                   has_initialized, initialized, openai_models, df, df_com, embedding_model, llm, slots,
                   files, call, apivars, unitvars>>

\* FullPipelineChatbot.run(query): relevant() with the configured top_k on
\* the combined DataFrames, then gen(); any exception gives the fixed error
\* string.
RunPipeline(query, failAt, chain) ==
    /\ initialized
    /\ queries < MaxQueries
    /\ LET hits == Rankings(query, df_com, config.top_k, tieOrder)
           rel  == Relevant(query, embedding_model, df_com, config.top_k, failAt, hits)
           out  == RunResult(rel, Gen(query, rel.results, chain))
       IN  /\ last' = [query    |-> query,
                       raised   |-> rel.raised,
                       results  |-> rel.results,
                       texts    |-> rel.texts,
                       index    |-> rel.index,
                       failAt   |-> failAt,
                       response |-> out.response,
                       propagated |-> out.raised]
           /\ queries' = queries + 1
           /\ docEncodes' = docEncodes + rel.encodes
           /\ indexBuilds' = indexBuilds + rel.builds
    /\ UNCHANGED <<database, tieOrder, config, instance, created, ctor, assigned,
                   has_initialized, initialized, openai_models, df, df_com, embedding_model, llm, slots,
                   files, call, unitvars>>

\* run() called on its own, as by the loop of chatbot_pipeline.py's main block.
Run(query, failAt, chain) ==
    /\ RunPipeline(query, failAt, chain)
    /\ UNCHANGED apivars


Next ==
    \/ \E openai \in BOOLEAN, failStep \in FailSteps :
          Construct(openai, failStep)
    \/ \E query \in Queries, failAt \in {"none", "query"} \cup Categories,
          chain \in RunChainOutcomes :
          Run(query, failAt, chain)

Spec == Init /\ [][Next]_allvars

\* ------------------------------------------- run() step by step, two callers
\* A relevant() that starts its searches as soon as one index is built.
BuildsDoneEarly(built) == built >= 1

\* The three _build_faiss_index calls of relevant() have returned.
BuildsDone(built) == built = Len(CategoryOrder)

\* An exception inside relevant(): logged, raised again, and run() answers
\* with the fixed error string; no result set exists.
BuildFailed(slot) ==
    [slot EXCEPT !.pc = "done", !.raised = TRUE, !.results = NoData,
                 !.response = PipelineErrorMessage]

\* An index kept in one attribute shared by all callers: the search reads
\* the index of whichever caller built or is building one for the category.
SharedIndex(t, cat) ==
    LET others == {u \in Threads \ {t} : slots[u].index[cat].state # "none"}
    IN  IF others = {} THEN slots[t].index[cat]
        ELSE slots[CHOOSE u \in others : TRUE].index[cat]

\* The index relevant() passes to _retrieve_top_k for a category: the local
\* variable its own _build_faiss_index call returned.
SearchedIndex(t, cat) == slots[t].index[cat]

\* A retrieval that sorts the shared DataFrame in place, best hit first.
DataAfterRetrieveInPlace(data, hits) ==
    IF Len(hits) = 0 \/ hits[1] < 0 \/ hits[1] >= Len(data) THEN data
    ELSE <<data[hits[1] + 1]>> \o
         [i \in 1..(Len(data) - 1) |-> IF i <= hits[1] THEN data[i] ELSE data[i + 1]]

\* The DataFrame relevant() was given, after _retrieve_top_k: data.iloc[...]
\* makes a new frame, and the similarity column and the sort go to that one.
DataAfterRetrieve(data, hits) == data

\* run(query) up to the encode calls of relevant(): the query and the three
\* document lists are encoded; a failing or missing encode raises.
Enter(t, query, failAt) ==
    /\ initialized
    /\ slots[t].pc \in {"idle", "done"}
    /\ slots' = [slots EXCEPT ![t] =
                    IF embedding_model # "local" \/ failAt # "none"
                    THEN BuildFailed([Idle EXCEPT !.query = query])
                    ELSE [Idle EXCEPT !.query = query, !.pc = "building"]]
    /\ UNCHANGED <<vars, files, call, apivars, unitvars>>

\* _build_faiss_index, first half: faiss.IndexFlatIP(embeddings.shape[1]),
\* an empty index, or IndexError for the encoding of an empty list.
CreateIndex(t) ==
    /\ slots[t].pc = "building"
    /\ LET c == CategoryOrder[slots[t].built + 1]
       IN  /\ slots[t].index[c].state = "none"
           /\ slots' = [slots EXCEPT ![t] =
                  IF BuildFaissIndex(Encode(DocumentTexts(df_com[c], c))).ok
                  THEN [@ EXCEPT !.index[c] = [state |-> "created", vectors |-> <<>>]]
                  ELSE BuildFailed(@)]
    /\ UNCHANGED <<vars, files, call, apivars, unitvars>>

\* _build_faiss_index, second half: normalize_L2 and index.add, after which
\* relevant() holds the index.
AddVectors(t) ==
    /\ slots[t].pc = "building"
    /\ LET c == CategoryOrder[slots[t].built + 1]
       IN  /\ slots[t].index[c].state = "created"
           /\ slots' = [slots EXCEPT ![t] =
                  [@ EXCEPT !.index[c] =
                                [state   |-> "built",
                                 vectors |-> BuildFaissIndex(
                                                Encode(DocumentTexts(df_com[c], c))).vectors],
                            !.built = @ + 1,
                            !.pc = IF BuildsDone(slots[t].built + 1)
                                   THEN "searching" ELSE @]]
    /\ UNCHANGED <<vars, files, call, apivars, unitvars>>

\* One _retrieve_top_k call of relevant(), on the next category.
SearchCategory(t) ==
    /\ slots[t].pc = "searching"
    /\ LET c    == CategoryOrder[slots[t].searched + 1]
           ix   == SearchedIndex(t, c)
           hits == FaissRanking(NormalizeL2(Embed(slots[t].query)), ix.vectors,
                                config.top_k, tieOrder)
           bad  == ix.state = "none" \/ \E i \in 1..Len(hits) : hits[i] >= Len(df_com[c])
       IN  /\ slots' = [slots EXCEPT ![t] =
                  IF bad THEN BuildFailed([@ EXCEPT !.seen[c] = ix])
                  ELSE [@ EXCEPT !.seen[c] = ix,
                                 !.results[c] = RetrieveTopK(Embed(slots[t].query), ix.vectors,
                                                             df_com[c], config.top_k, hits),
                                 !.searched = @ + 1,
                                 !.pc = IF slots[t].searched + 1 = Len(CategoryOrder)
                                        THEN "generating" ELSE @]]
           /\ df_com' = [df_com EXCEPT ![c] = DataAfterRetrieve(@, hits)]
    /\ UNCHANGED <<database, tieOrder, config, instance, created, ctor, assigned,
                   has_initialized, initialized, openai_models, df, embedding_model, llm, last, queries,
                   docEncodes, indexBuilds, files, call, apivars, unitvars>>

\* The rest of run(): gen() on the result set.
Generate(t, chain) ==
    /\ slots[t].pc = "generating"
    /\ slots' = [slots EXCEPT ![t] =
                    [@ EXCEPT !.pc = "done",
                              !.results = ResultSet(@),
                              !.response = Gen(slots[t].query, ResultSet(slots[t].results), chain).text]]
    /\ UNCHANGED <<vars, files, call, apivars, unitvars>>

ConcurrentNext ==
    \/ \E openai \in BOOLEAN, failStep \in FailSteps :
          Construct(openai, failStep)
    \/ \E t \in Threads, query \in Queries, failAt \in {"none", "query"} \cup Categories :
          Enter(t, query, failAt)
    \/ \E t \in Threads : CreateIndex(t)
    \/ \E t \in Threads : AddVectors(t)
    \/ \E t \in Threads : SearchCategory(t)
    \/ \E t \in Threads, chain \in RunChainOutcomes : Generate(t, chain)

ConcurrentSpec == Init /\ [][ConcurrentNext]_allvars

\* ------------------------------------------------------ combined, by itself
\* CombinedTables().combined(columns, df) on the table pulled for a category.
CombineCall(columns, cat) ==
    LET out == Combined(columns, Pull(database)[cat], Schema(cat))
    IN  /\ call' = [made |-> TRUE, columns |-> columns, cat |-> cat, ok |-> out.ok,
                    df |-> out.df, error |-> out.error,
                    input |-> InputAfterCombined(columns, Pull(database)[cat], Schema(cat))]
        /\ files' = WriteCsv(files, out.csv)
        /\ UNCHANGED <<vars, slots, apivars, unitvars>>

\* combined reads nothing of the search library.
CombineInit ==
    /\ Init
    /\ tieOrder = "lower_label_first"

CombineNext == \E cat \in Categories : \E columns \in ColumnLists(cat) : CombineCall(columns, cat)

CombineSpec == CombineInit /\ [][CombineNext]_allvars

\* ------------------------------------------------------------ the web API
\* The statements of save_chat_response that can raise.
SavePoints == {"none", "add", "commit", "refresh"}

\* save_chat_response(query, response) on the committed rows: a session is
\* opened, the record added, committed and refreshed; an exception at any of
\* the three rolls the session back and is raised again; the session is
\* closed on every path. A rollback after a completed commit undoes nothing.
SaveChatResponse(rows, query, response, failPoint) ==
    LET record    == [id |-> Len(rows) + 1, query |-> query, response |-> response]
        committed == failPoint \in {"none", "refresh"}
    IN  [made       |-> TRUE,
         query      |-> query,
         response   |-> response,
         failPoint  |-> failPoint,
         raised     |-> failPoint # "none",
         opened     |-> 1,
         closed     |-> 1,
         rolledBack |-> failPoint # "none",
         committed  |-> IF committed THEN 1 ELSE 0,
         returned   |-> IF failPoint = "none" THEN <<record>> ELSE <<>>,
         rows       |-> IF committed THEN Append(rows, record) ELSE rows]

\* A handler that answers whether or not the save succeeded: the mutation of
\* ChatHandler used for C28.
ChatHandlerAnswersAnyway(ran, saved) ==
    IF ran.raised
    THEN [status |-> 500, body |-> "Internal Server Error", trace |-> <<"run">>]
    ELSE [status |-> 200, body |-> ran.response, trace |-> <<"run", "save", "reply">>]

\* The /chat handler after run() and save_chat_response(): the reply
\* {"response": response} with status 200 when neither raised, otherwise
\* HTTPException 500 "Internal Server Error".
ChatHandler(ran, saved) ==
    IF ran.raised
    THEN [status |-> 500, body |-> "Internal Server Error", trace |-> <<"run">>]
    ELSE IF saved.raised
    THEN [status |-> 500, body |-> "Internal Server Error", trace |-> <<"run", "save">>]
    ELSE [status |-> 200, body |-> ran.response, trace |-> <<"run", "save", "reply">>]

\* POST /chat: run() on the pipeline, save_chat_response(), the reply. The
\* handler is a coroutine without an await, so requests do not interleave.
Chat(query, failAt, chain, failPoint) ==
    /\ RunPipeline(query, failAt, chain)
    /\ LET ran   == [raised |-> last'.propagated, response |-> last'.response]
           saved == IF ran.raised THEN save
                    ELSE SaveChatResponse(history, query, ran.response, failPoint)
           reply == ChatHandler(ran, saved)
       IN  /\ save' = saved
           /\ history' = IF ran.raised THEN history ELSE saved.rows
           /\ request' = [made     |-> TRUE,
                          query    |-> query,
                          response |-> ran.response,
                          error    |-> IF last'.raised THEN "retrieval"
                                       ELSE IF chain.kind \in {"KeyError", "Exception"}
                                       THEN "generation"
                                       ELSE IF saved.raised THEN "saving"
                                       ELSE "none",
                          status   |-> reply.status,
                          body     |-> reply.body,
                          trace    |-> reply.trace]
           /\ replies' = IF reply.status = 200 THEN replies + 1 ELSE replies

\* The requests and retrieval outcomes the handler is driven with, over a
\* pipeline whose three collections are non-empty.
ApiQueries == {"cleaning"}

ApiFailAts == {"none", "services"}

ApiInit ==
    /\ Init
    /\ tieOrder = "lower_label_first"
    /\ database.SocialMedia_English # <<>>
    /\ config.top_k = 1
    /\ config.branch_columns = <<"branch_name">>

ApiNext ==
    \/ \E openai \in BOOLEAN, failStep \in FailSteps :
          Construct(openai, failStep)
    \/ ConstructFromAPI
    \/ \E query \in ApiQueries, failAt \in ApiFailAts,
          chain \in RunChainOutcomes, failPoint \in SavePoints :
          Chat(query, failAt, chain, failPoint)

ApiSpec == ApiInit /\ [][ApiNext]_allvars

\* ------------------------------------------------------------ gen and load on their own
\* The relevant_docs a caller may pass to gen: all three categories, only
\* one of them, none, and frames that lack the name columns.
GenDocs ==
    { [c \in Categories |-> <<>>],
      [c \in Categories |->
          IF c = "services" THEN <<SvcEn1, SvcEn2>>
          ELSE IF c = "branches" THEN <<BrEn1>> ELSE <<SmEn1>>],
      [c \in {"services"} |-> <<SvcEn1>>],
      [c \in {"branches", "social_media"} |-> <<[combined |-> "main amman"]>>] }

\* A direct call of ChatbotResponse().gen.
GenCall(relevant_docs, chain) ==
    /\ LET out == Gen("cleaning", relevant_docs, chain)
       IN  genCall' = [made    |-> TRUE,
                       keys    |-> DOMAIN relevant_docs,
                       kind    |-> chain.kind,
                       message |-> chain.message,
                       raised  |-> out.raised,
                       text    |-> out.text]
    /\ UNCHANGED <<vars, slots, files, call, apivars, loadCall>>

\* The url arguments of load: a text is a sequence of pieces, "/d/" and "/"
\* being the separators load splits on; a value that is no string keeps only
\* its type.
Urls ==
    { [type |-> "str", text |-> <<"https://drive.google.com/file", "/d/", "139OEj", "/", "view">>],
      [type |-> "str", text |-> <<"https://drive.google.com/file", "/d/", "139OEj">>],
      [type |-> "str", text |-> <<"https://drive.google.com/uc?id=139OEj">>],
      [type |-> "str", text |-> <<>>],
      [type |-> "int", text |-> <<>>],
      [type |-> "NoneType", text |-> <<>>] }

\* The types of the name argument.
NameTypes == {"str", "int"}

\* url.split('/d/')[1].split('/')[0]: no value when the url holds no '/d/'
\* (IndexError), otherwise what stands between the first '/d/' and the next
\* separator.
FileId(text) ==
    LET marks == {i \in 1..Len(text) : text[i] = "/d/"}
    IN  IF marks = {} THEN [found |-> FALSE, id |-> ""]
        ELSE LET first == CHOOSE i \in marks : \A j \in marks : i <= j
             IN  [found |-> TRUE,
                  id    |-> IF first < Len(text) /\ text[first + 1] \notin {"/d/", "/"}
                            THEN text[first + 1] ELSE ""]

\* LoadFromDrive.load: TypeError for a url or a name that is no string; then
\* os.makedirs of the Data directory, which raises FileExistsError when the
\* directory is there; then, inside one try whose handler raises a plain
\* Exception for whatever was raised in it, the file id (ValueError when the
\* url has none) and the download.
Load(url, nameType, dataDir, downloadOk) ==
    IF url.type # "str" \/ nameType # "str"
    THEN [raised |-> "TypeError", cause |-> "", downloads |-> 0, dataDir |-> dataDir]
    ELSE IF dataDir
    THEN [raised |-> "FileExistsError", cause |-> "", downloads |-> 0, dataDir |-> TRUE]
    ELSE IF ~FileId(url.text).found
    THEN [raised |-> "Exception", cause |-> "ValueError", downloads |-> 0, dataDir |-> TRUE]
    ELSE IF ~downloadOk
    THEN [raised |-> "Exception", cause |-> "download", downloads |-> 1, dataDir |-> TRUE]
    ELSE [raised |-> "", cause |-> "", downloads |-> 1, dataDir |-> TRUE]

\* A call of LoadFromDrive().load; the Data directory, once there, stays.
LoadCall(url, nameType, existed, downloadOk) ==
    /\ loadCall.dataDir => existed
    /\ LET out == Load(url, nameType, existed, downloadOk)
       IN  loadCall' = [made      |-> TRUE,
                        url       |-> url,
                        name      |-> nameType,
                        raised    |-> out.raised,
                        downloads |-> out.downloads,
                        dataDir   |-> out.dataDir]
    /\ UNCHANGED <<vars, slots, files, call, apivars, genCall>>

UnitInit ==
    /\ ApiInit
    /\ database.Services_Arabic = <<>>

UnitNext ==
    \/ \E relevant_docs \in GenDocs, chain \in ChainOutcomes : GenCall(relevant_docs, chain)
    \/ \E url \in Urls, nameType \in NameTypes, existed \in BOOLEAN, downloadOk \in BOOLEAN :
          LoadCall(url, nameType, existed, downloadOk)

UnitSpec == UnitInit /\ [][UnitNext]_allvars
\* ------------------------------------------------------------ properties
\* The latest run()'s relevant() call returned a result set.
Returned == queries > 0 /\ ~last.raised

\* The normalised query vector of the latest run.
LastQueryVector == NormalizeL2(Embed(last.query))

\* The similarity of the latest query to the text the index holds for a row.
IndexedSimilarity(cat, row) ==
    InnerProduct(LastQueryVector, NormalizeL2(Embed(row[NameColumn(cat)])))

\* C1: for every non-empty collection C and every k >= 1, the result returned
\* for that category has exactly min(k, |C|) rows (a request for more rows
\* than C holds is clamped to |C|).
C1_ResultHasMinRows ==
    Returned =>
        \A c \in Categories :
            Len(df_com[c]) > 0 =>
                Len(last.results[c]) = Min(config.top_k, Len(df_com[c]))

\* C2: with one category's collection empty and the other two non-empty (and
\* no encoding failure), retrieval does not raise: the empty category gets an
\* empty result, the populated ones get their top-k results.
C2_EmptyCategoryGivesEmptyResult ==
    ( /\ queries > 0
      /\ embedding_model = "local"
      /\ last.failAt = "none"
      /\ Cardinality({c \in Categories : Len(df_com[c]) = 0}) = 1 )
    => /\ ~last.raised
       /\ \A c \in Categories :
            IF Len(df_com[c]) = 0 THEN last.results[c] = <<>>
            ELSE Len(last.results[c]) > 0

\* C3: every returned row is a neighbour the search found: no position of the
\* collection appears twice in one result, and every row's similarity is the
\* inner product of the query with that row's indexed vector (no placeholder
\* row, no sentinel score).
C3_NoFabricatedRows ==
    Returned =>
        \A c \in Categories :
            LET res == last.results[c]
            IN  /\ \A i, j \in 1..Len(res) : i # j => res[i].position # res[j].position
                /\ \A i \in 1..Len(res) :
                     res[i].similarity = IndexedSimilarity(c, res[i].record)

\* C4: in every returned result the similarities are non-increasing from the
\* first row to the last.
C4_SortedDescending ==
    Returned =>
        \A c \in Categories :
            \A i, j \in 1..Len(last.results[c]) :
                i < j => last.results[c][i].similarity >= last.results[c][j].similarity

\* C4 witness: a returned result of three rows with a strict descent.
C4_Witness ==
    /\ Returned
    /\ \E c \in Categories :
         /\ Len(last.results[c]) = 3
         /\ last.results[c][1].similarity > last.results[c][3].similarity

\* C5: every similarity of a returned result lies in the cosine range [-1, 1]
\* and no result has more rows than its collection has records.
C5_ScoresInCosineRange ==
    Returned =>
        \A c \in Categories :
            /\ Len(last.results[c]) <= Len(df_com[c])
            /\ \A i \in 1..Len(last.results[c]) :
                 /\ last.results[c][i].similarity >= -(Scale * Scale)
                 /\ last.results[c][i].similarity <= Scale * Scale

\* C6: a failure of the embedding model while encoding the query or the
\* documents is never absorbed: relevant() raises, no result set (empty or
\* partial) exists for the query, and run() reports the failure message.
C6_EncodingFailureSurfaces ==
    (queries > 0 /\ last.failAt # "none") =>
        /\ last.raised
        /\ last.results = <<>>
        /\ last.response = PipelineErrorMessage

\* C6 witness: the encoder failed on the branches after the services had been
\* encoded, and the run reported the failure.
C6_Witness ==
    /\ queries > 0
    /\ embedding_model = "local"
    /\ last.failAt = "branches"
    /\ last.raised
    /\ docEncodes > 0

\* C7: a returned result set has exactly the keys services, branches and
\* social_media, and the value of each key is built from that category's own
\* collection for this query: each row is the record at its position in that
\* category's collection and carries the category's name column.
C7_ExactCategoryKeys ==
    Returned =>
        /\ DOMAIN last.results = Categories
        /\ \A c \in Categories :
             \A i \in 1..Len(last.results[c]) :
                LET row == last.results[c][i]
                IN  /\ row.position \in 0..(Len(df_com[c]) - 1)
                    /\ row.record = df_com[c][row.position + 1]
                    /\ NameColumn(c) \in DOMAIN row.record

\* C7 witness: a result set with rows under every key.
C7_Witness ==
    /\ Returned
    /\ \A c \in Categories : Len(last.results[c]) > 0

\* C8: the texts encoded and indexed for a category are the records' combined
\* texts, one per record.
C8_IndexedTextsAreCombined ==
    (queries > 0 /\ last.texts # <<>>) =>
        \A c \in Categories :
            /\ Len(last.texts[c]) = Len(df_com[c])
            /\ \A i \in 1..Len(df_com[c]) : last.texts[c][i] = df_com[c][i]["combined"]

\* C9: if a record's combined text is the query text, the first row of its
\* category's result has that text and similarity 1.0.
C9_IdenticalTextRanksFirst ==
    Returned =>
        \A c \in Categories :
            (\E i \in 1..Len(df_com[c]) : df_com[c][i]["combined"] = last.query) =>
                /\ last.results[c][1].record["combined"] = last.query
                /\ last.results[c][1].similarity = Scale * Scale

LocalOutcome ==
    Relevant(last.query, "local", df_com, config.top_k, last.failAt,
             Rankings(last.query, df_com, config.top_k, tieOrder))

\* C18: with the remote embedding backend selected (openai_models = true) a
\* query's retrieval completes and returns a result set under exactly the
\* conditions in which it does with the local backend, for the same
\* collections and query.
C18_RemoteBackendCompletesLikeLocal ==
    (queries > 0 /\ embedding_model = "openai") =>
        (last.raised = LocalOutcome.raised)

\* The index the latest run built for a category holds exactly one vector of
\* unit length per record of the collection, the record's own.
OneNormalizedVectorPerRecord(cat) ==
    /\ Len(last.index[cat]) = Len(df_com[cat])
    /\ \A i \in 1..Len(df_com[cat]) :
          /\ last.index[cat][i] = NormalizeL2(Embed(df_com[cat][i][NameColumn(cat)]))
          /\ Norm(last.index[cat][i]) = Scale

\* C14: building a category's index again from the same collection replaces
\* the prior index: after any number of consecutive builds the index holds
\* exactly one normalized vector per record, never accumulated duplicates,
\* and a query returns the same results as after a single build.
C14_RebuildReplacesIndex ==
    [][(queries' = queries + 1 /\ ~last'.raised) =>
          /\ \A c \in Categories : OneNormalizedVectorPerRecord(c)'
          /\ (Returned /\ last'.query = last.query) =>
                (last'.index = last.index /\ last'.results = last.results)]_vars

\* C14 witness: the indices were built twice from collections of several
\* records, and the second build was searched.
C14_Witness ==
    /\ queries = 2
    /\ indexBuilds = 2 * Cardinality(Categories)
    /\ ~last.raised
    /\ \A c \in Categories : Len(df_com[c]) >= 2 /\ Len(last.index[c]) = Len(df_com[c])

\* A returned row that stands for a search hit: its similarity is a score
\* the search computed, not the no-neighbour distance.
IsHit(row) == row.similarity # NoNeighbourDistance

\* C16: the index of a category holds one vector per record of the
\* category's collection, in collection order, so index position i denotes
\* record i: every row returned for a search hit at position i is the i-th
\* record of the collection and carries the similarity the search reported
\* for position i.
C16_HitRowIsRecordAtPosition ==
    Returned =>
        \A c \in Categories :
            /\ Len(last.index[c]) = Len(df_com[c])
            /\ \A i \in 1..Len(df_com[c]) :
                  last.index[c][i] = NormalizeL2(Embed(last.texts[c][i]))
            /\ \A r \in 1..Len(last.results[c]) :
                  LET row == last.results[c][r]
                  IN  IsHit(row) =>
                        /\ row.position \in 0..(Len(df_com[c]) - 1)
                        /\ row.record = df_com[c][row.position + 1]
                        /\ row.similarity =
                              InnerProduct(LastQueryVector, last.index[c][row.position + 1])

\* C16 witness: a search over a collection of three records whose best hit
\* is not the first record.
C16_Witness ==
    /\ Returned
    /\ Len(df_com["services"]) = 3
    /\ Len(last.results["services"]) >= 2
    /\ IsHit(last.results["services"][1])
    /\ IsHit(last.results["services"][2])
    /\ last.results["services"][1].position > 0
    /\ last.results["services"][1].record = df_com["services"][last.results["services"][1].position + 1]

\* The outcome of relevant() for the latest query on a retriever that has
\* processed nothing before: a function of the query, k and the collections
\* held now (and of the embedding model and whether its call fails).
FreshOutcome ==
    Relevant(last.query, embedding_model, df_com, config.top_k, last.failAt,
             Rankings(last.query, df_com, config.top_k, tieOrder))

\* C17: the retrieval orchestrator holds no state between calls: the result
\* set returned for a query depends only on that query, k and the current
\* collections, never on the queries processed before it, failed ones
\* included.
C17_ResultIndependentOfEarlierQueries ==
    queries > 0 =>
        /\ last.raised = FreshOutcome.raised
        /\ last.results = FreshOutcome.results

\* C17 witness: a query answered after an earlier one was processed.
C17_Witness ==
    /\ queries = 2
    /\ ~last.raised
    /\ last.results = FreshOutcome.results
    /\ \E c \in Categories : Len(last.results[c]) >= 2

\* C15: retrieval is deterministic: two runs of build followed by a query on
\* identical inputs return identical ordered results, and records of equal
\* similarity appear in their original record order, the lower collection
\* position first.
C15_TiesInRecordOrder ==
    Returned =>
        /\ last.results = FreshOutcome.results
        /\ \A c \in Categories :
              \A r, s \in 1..Len(last.results[c]) :
                  (/\ r < s
                   /\ IsHit(last.results[c][r])
                   /\ IsHit(last.results[c][s])
                   /\ last.results[c][r].similarity = last.results[c][s].similarity) =>
                      last.results[c][r].position < last.results[c][s].position

\* The result set relevant() returns for a caller's query when no other
\* caller is inside run().
Alone(t) ==
    Relevant(slots[t].query, embedding_model, df_com, config.top_k, "none",
             Rankings(slots[t].query, df_com, config.top_k, tieOrder)).results

\* C11: executing a query leaves all shared state unchanged: the pipeline's
\* per-category collections (rows, columns and order) are after every step of
\* every query what start-up made them, no index is held across queries, and
\* under any interleaving of concurrent queries each query gets the result it
\* gets running alone.
C11_QueriesLeaveSharedStateUnchanged ==
    initialized =>
        /\ df = Pull(database)
        /\ df_com = [c \in Categories |-> CombineAll(config, df)[c].df]
        /\ \A t \in Threads :
              (slots[t].pc \in {"generating", "done"} /\ ~slots[t].raised) =>
                  ResultSet(slots[t].results) = Alone(t)

\* C11 witness: one caller has its three results while the other, with
\* another query, is between its searches.
C11_Witness ==
    /\ slots["a"].pc = "generating"
    /\ slots["b"].pc = "searching"
    /\ slots["b"].searched = 2
    /\ slots["a"].query # slots["b"].query
    /\ Len(df_com["services"]) = 3
    /\ ResultSet(slots["a"].results) = Alone("a")

\* C12: whenever a query's search runs while an index for the same category
\* is being built, the search is executed against a complete index: no
\* search ever observes an index that holds only part of the collection's
\* vectors.
C12_SearchSeesCompleteIndex ==
    \A t \in Threads : \A c \in Categories :
        slots[t].seen[c].state # "unsearched" =>
            /\ slots[t].seen[c].state = "built"
            /\ slots[t].seen[c].vectors =
                  BuildFaissIndex(Encode(DocumentTexts(df_com[c], c))).vectors
            /\ Len(slots[t].seen[c].vectors) = Len(df_com[c])

\* C12 witness: one caller has searched the services index while the other
\* caller's services index is created and its vectors are not yet added.
C12_Witness ==
    /\ slots["a"].pc = "searching"
    /\ slots["a"].searched = 1
    /\ slots["a"].seen["services"].state = "built"
    /\ Len(slots["a"].seen["services"].vectors) = 3
    /\ slots["b"].pc = "building"
    /\ slots["b"].index["services"].state = "created"

RECURSIVE JoinedBySpace(_, _, _)
JoinedBySpace(row, columns, n) ==
    IF n = 1 THEN AsTypeStr(columns[1], row[columns[1]])
    ELSE JoinedBySpace(row, columns, n - 1) \o " " \o AsTypeStr(columns[n], row[columns[n]])

\* The table the latest combined call was given.
CallInput == Pull(database)[call.cat]

\* The latest combined call had a non-empty list of columns of the table.
ValidCall ==
    /\ call.made
    /\ Len(call.columns) > 0
    /\ \A i \in 1..Len(call.columns) : call.columns[i] \in Schema(call.cat)

InvalidCall == call.made /\ ~ValidCall

\* C20: combine rejects invalid input before producing anything: an empty
\* field-name list, or a field name absent from the collection, makes it
\* fail with an error that names the first, in list order, missing field;
\* no combined collection is returned and no output is written.
C20_InvalidColumnsRejected ==
    [][InvalidCall' =>
          /\ ~call'.ok
          /\ call'.df = <<>>
          /\ files' = files
          /\ Len(call'.columns) = 0 => call'.error = EmptyColumnsMessage
          /\ Len(call'.columns) > 0 =>
                \E i \in 1..Len(call'.columns) :
                    /\ call'.columns[i] \notin Schema(call'.cat)
                    /\ \A j \in 1..(i - 1) : call'.columns[j] \in Schema(call'.cat)
                    /\ call'.error = MissingColumnMessage(call'.columns[i])]_allvars

\* C20 witness: a call naming two columns the table has not, after a valid
\* call has written its file, answered with the first of the two.
C20_Witness ==
    /\ InvalidCall
    /\ call.columns = <<"phone", NameColumn(call.cat), "age">>
    /\ call.error = "Column 'phone' does not exist in the DataFrame."
    /\ \E name \in FileNames : files[name].exists

\* C21: combine does not mutate its input: after any call, successful or
\* failing, the input collection has the same records, fields and values as
\* before, with no combined field; the combined field exists only on the
\* returned new collection.
C21_InputNotMutated ==
    call.made =>
        /\ call.input = CallInput
        /\ \A i \in 1..Len(call.input) : DOMAIN call.input[i] = Schema(call.cat)
        /\ call.ok => \A i \in 1..Len(call.df) : "combined" \in DOMAIN call.df[i]

\* C21 witness: a successful call on a table of three records.
C21_Witness ==
    /\ call.made
    /\ call.ok
    /\ Len(call.input) = 3
    /\ call.df[1]["combined"] = "cleaning 40"
    /\ DOMAIN call.input[1] = {"service_name", "price"}

\* C22: combine is a pure function: its only effect is its return value; no
\* call creates or overwrites a file or other persistent state, so the order
\* and number of combine calls cannot affect any later observation.
C22_CombineWritesNothing ==
    [][call'.made => files' = files]_allvars

\* C27: FullPipelineChatbot.run never raises: when retrieval or generation
\* raises it returns exactly the fixed error string, otherwise the string gen
\* returned; and it leaves the pulled and combined collections, the two
\* models and the initialised flag as they were.
C27_RunNeverRaises ==
    [][queries' # queries =>
          /\ ~last'.propagated
          /\ last'.raised => last'.response = PipelineErrorMessage
          /\ ~last'.raised =>
                last'.response \in {Gen(last'.query, last'.results, chain).text :
                                      chain \in RunChainOutcomes}
          /\ df' = df /\ df_com' = df_com
          /\ llm' = llm /\ embedding_model' = embedding_model
          /\ initialized' = initialized /\ initialized]_allvars

C27_Witness ==
    /\ initialized
    /\ queries = 2
    /\ last.raised /\ last.failAt = "branches"
    /\ ~last.propagated
    /\ last.response = PipelineErrorMessage

\* What initialize_pipeline leaves when it completes: the three pulled and
\* the three combined DataFrames, the LLM and the embedding model of the
\* chosen kind.
InitializationComplete ==
    /\ has_initialized
    /\ df = Pull(database)
    /\ assigned = Categories
    /\ \A c \in Categories :
          /\ CombineAll(config, df)[c].ok
          /\ df_com[c] = CombineAll(config, df)[c].df
    /\ llm = (IF openai_models THEN "openai" ELSE "huggingface")
    /\ embedding_model = (IF openai_models THEN "openai" ELSE "local")

\* C29: _initialized is True only when the pull, the three combinations, the
\* LLM load and the embedding load have all completed; a constructor call
\* whose initialisation raised hands the exception to its caller and leaves
\* _initialized False, so that the next constructor call runs the whole
\* initialisation again: a constructor call returns normally exactly when the
\* pipeline is initialised.
C29_InitializedMeansComplete ==
    /\ initialized => InitializationComplete
    /\ ctor.called => (ctor.error = "" <=> initialized)
    /\ ctor.called => (ctor.error = "initialization" <=> ~initialized)

C29_Witness ==
    /\ ctor.called /\ ctor.error = "initialization"
    /\ ~initialized /\ has_initialized
    /\ assigned = Categories
    /\ df = Pull(database)
    /\ llm = "openai" /\ embedding_model = "none"

\* C23: there is only ever one pipeline instance and it is initialised once:
\* every constructor call, the one ChatbotAPI makes at module import and in
\* main included, yields that instance; and once an initialisation has
\* succeeded no later step pulls, combines or loads again or changes the
\* configuration.
C23_OneInstanceInitializedOnce ==
    [][/\ ctor'.called => (created' = 1 /\ ctor'.error # "TypeError")
       /\ initialized =>
             /\ initialized'
             /\ config' = config /\ openai_models' = openai_models
             /\ df' = df /\ df_com' = df_com /\ files' = files
             /\ llm' = llm /\ embedding_model' = embedding_model]_allvars

\* C24: an error while the /chat handler retrieves, generates or saves gives
\* HTTPException 500 and no response body.
C24_HandlerErrorGives500 ==
    (request.made /\ request.error # "none") =>
        (request.status = 500 /\ request.body # request.response)

\* C28: a response the /chat handler returns has been saved first: the
\* handler replies after the save, the newest committed row holds the
\* returned query and response, there are at least as many committed rows as
\* returned responses, and a failed save yields no response.
C28_SavedBeforeReturned ==
    /\ replies <= Len(history)
    /\ (request.made /\ request.status = 200) =>
          /\ request.trace = <<"run", "save", "reply">>
          /\ ~save.raised
          /\ history # <<>>
          /\ history[Len(history)].query = request.query
          /\ history[Len(history)].response = request.body
    /\ (request.made /\ save.made /\ save.raised) =>
          (request.status = 500 /\ request.body # request.response)

C28_Witness ==
    /\ replies = 2 /\ Len(history) = 2
    /\ request.status = 200
    /\ request.body = PipelineErrorMessage
    /\ history[1].response = "answer"

\* C30: save_chat_response opens one session per call and closes it on every
\* path; on success exactly one record is committed and returned; when
\* adding, committing or refreshing fails the transaction is rolled back, the
\* exception raised again and no record of that call persisted.
C30_SaveCommitsOneOrNothing ==
    save.made =>
        /\ save.opened = 1 /\ save.closed = 1
        /\ ~save.raised =>
              /\ save.committed = 1
              /\ Len(save.returned) = 1
              /\ save.rows # <<>>
              /\ save.rows[Len(save.rows)] = save.returned[1]
        /\ save.raised =>
              /\ save.rolledBack
              /\ save.returned = <<>>
              /\ save.committed = 0

\* C25: gen always returns a string and never lets an exception out: for a
\* KeyError the string "Missing required data: ..." with the error's text,
\* for any other exception "Sorry, an error occurred while processing your
\* request: ..." with the error's text.
C25_GenAlwaysReturnsString ==
    genCall.made =>
        /\ ~genCall.raised
        /\ genCall.kind = "KeyError" =>
              genCall.text = "Missing required data: " \o genCall.message
        /\ genCall.kind = "Exception" =>
              genCall.text = "Sorry, an error occurred while processing your request: "
                             \o genCall.message

C25_Witness ==
    /\ genCall.made
    /\ genCall.keys = {"services"}
    /\ genCall.kind = "KeyError"
    /\ genCall.text = "Missing required data: 'chat_history'"

\* C26: load raises ValueError when the url holds no file id (no '/d/'),
\* TypeError when the url or the name is not a string, and in both cases
\* attempts no download.
C26_LoadRejectsBadArguments ==
    loadCall.made =>
        LET notStr == loadCall.url.type # "str" \/ loadCall.name # "str"
            noId   == ~notStr /\ \A i \in 1..Len(loadCall.url.text) : loadCall.url.text[i] # "/d/"
        IN  /\ notStr => (loadCall.raised = "TypeError" /\ loadCall.downloads = 0)
            /\ noId => (loadCall.raised = "ValueError" /\ loadCall.downloads = 0)
====
